---- MODULE Spec2Model ----
(***************************************************************************)
(* osu!standard difficulty calculation, src/osu/precise/mod.rs:            *)
(* stars(), strains() and the two stack resolvers stacking() and           *)
(* old_stacking(), as a state machine whose steps follow the control flow  *)
(* of the source.                                                          *)
(*                                                                         *)
(* Units.  f32 values are kept exact as integers:                          *)
(*   - raw times are milliseconds; after the clock-rate division a time is *)
(*     counted in 1/TimeSub ms, so that t / 1.5 and t / 0.75 stay exact;   *)
(*   - raw positions are osu!pixels; after the stack-offset shift a        *)
(*     position is counted in 1/PosSub px, so that stack_height * scale *  *)
(*     -6.4 stays exact;                                                   *)
(*   - ar and cs are counted in tenths, stack_leniency in tenths;          *)
(*   - stack_height only ever holds whole numbers.                         *)
(***************************************************************************)
EXTENDS Integers, Sequences, FiniteSets, TLC

VARIABLES fn, map, mods, passed_objects, pc, stack_threshold, hit_objects,
          max_combo, loc, ev, skills, result, panic_at

vars == <<fn, map, mods, passed_objects, pc, stack_threshold, hit_objects,
          max_combo, loc, ev, skills, result, panic_at>>

----------------------------------------------------------------------------
(* Bounds of the model *)

MaxObjects == 3

(* Program constants *)

SECTION_LEN == 400
STACK_DISTANCE == 3
OSU_AR_MAX == 450
OSU_AR_AVG == 1200
OSU_AR_MIN == 1800

(* Sub-units that keep the f32 divisions exact *)
TimeSub == 3
PosSub == 125

----------------------------------------------------------------------------
(* Small helpers *)

Max(a, b) == IF a >= b THEN a ELSE b

Min(a, b) == IF a <= b THEN a ELSE b

Abs(x) == IF x < 0 THEN -x ELSE x

\* f32::ceil of a / b for b > 0
CeilDiv(a, b) == -((-a) \div b)

DistSq(p, q) == (p[1] - q[1]) * (p[1] - q[1]) + (p[2] - q[2]) * (p[2] - q[2])

\* Pos2::distance(a, b) < STACK_DISTANCE, both sides squared
Near(p, q) == DistSq(p, q) < STACK_DISTANCE * STACK_DISTANCE

None == [is_some |-> FALSE, val |-> 0]

Some(v) == [is_some |-> TRUE, val |-> v]

\* The first k elements of a sequence (Iterator::take)
Take(seq, k) == SubSeq(seq, 1, Min(k, Len(seq)))

CountKind(notes, kind) == Cardinality({x \in 1..Len(notes) : notes[x].kind = kind})

----------------------------------------------------------------------------
(* Collaborators outside src/osu/precise/mod.rs *)

\* crate::difficulty_range(val, max, avg, min): linear interpolation on
\* either side of the midpoint 5; val10 is the value in tenths
difficulty_range(val10, max, avg, min) ==
    IF val10 > 50 THEN avg + ((max - avg) * (val10 - 50)) \div 50
    ELSE IF val10 < 50 THEN avg - ((avg - min) * (50 - val10)) \div 50
    ELSE avg

difficulty_range_ar(ar10) == difficulty_range(ar10, OSU_AR_MAX, OSU_AR_AVG, OSU_AR_MIN)

\* Beatmap::attributes().mods(mods): ar/cs under hard-rock (x1.4 / x1.3,
\* capped at 10) and easy (x0.5); hp and od stand for themselves
MapAttributes(m, md) ==
    [ar |-> IF md.hr THEN Min((m.ar * 14) \div 10, 100)
            ELSE IF md.ez THEN m.ar \div 2 ELSE m.ar,
     cs |-> IF md.hr THEN Min((m.cs * 13) \div 10, 100)
            ELSE IF md.ez THEN m.cs \div 2 ELSE m.cs,
     hp |-> <<"hp", m.hp, md.hr, md.ez>>,
     od |-> <<"od", m.od, md.hr, md.ez>>,
     clock_rate |-> md.clock_rate]

\* OsuObject::new(h, hr, params): None for a note that fails validity (a
\* zero-length slider); otherwise the object, its y flipped under hard-rock
FlipY(p, hr) == IF hr THEN <<p[1], 384 - p[2]>> ELSE p

OsuObject_new(h, idx, hr) ==
    IF h.kind = "slider" /\ h.pixel_len = 0 THEN None
    ELSE Some([kind |-> h.kind,
               time |-> h.time,
               end_time |-> h.time + h.duration,
               pos |-> FlipY(h.pos, hr),
               end_pos |-> FlipY(h.end_pos, hr),
               stack_height |-> 0,
               idx |-> idx])

RECURSIVE BuildObjects(_, _, _)
\* iter().filter_map(|h| OsuObject::new(h, hr, &mut params)) from raw index
\* `from` on; every object keeps the index of its raw note
BuildObjects(notes, from, hr) ==
    IF from > Len(notes) THEN <<>>
    ELSE LET o == OsuObject_new(notes[from], from, hr)
         IN  IF o.is_some THEN <<o.val>> \o BuildObjects(notes, from + 1, hr)
             ELSE BuildObjects(notes, from + 1, hr)

\* params.max_combo after the notes were built: one per circle and spinner,
\* head and tail of every slider
ComboOf(o) == IF o.kind = "slider" THEN 2 ELSE 1

RECURSIVE SumCombo(_)
SumCombo(objs) == IF objs = <<>> THEN 0 ELSE ComboOf(Head(objs)) + SumCombo(Tail(objs))

is_circle(o) == o.kind = "circle"

is_slider(o) == o.kind = "slider"

is_spinner(o) == o.kind = "spinner"

\* DifficultyObject::new(curr, prev, ..): the jump distance (kept squared,
\* in position sub-units) and the strain time with its floor of 25 ms
DifficultyObject_new(curr, prev) ==
    [time |-> curr.time,
     jump_dist |-> DistSq(curr.pos, prev.end_pos),
     strain_time |-> Max(curr.time - prev.time, 25 * TimeSub)]

\* Skill::new(kind)
Skill_new(kind) ==
    [kind |-> kind, strain_peaks |-> <<>>, current_section_peak |-> 0, current_strain |-> 0]

Decay(x) == x \div 2

StrainValueOf(kind, h) ==
    IF kind = "aim" THEN h.jump_dist
    ELSE IF kind = "speed" THEN (400 * TimeSub) \div h.strain_time
    ELSE 2 * h.jump_dist + 1

\* Skill::process(h)
Skill_process(sk, h) ==
    LET strain == Decay(sk.current_strain) + StrainValueOf(sk.kind, h)
    IN  [sk EXCEPT !.current_strain = strain,
                   !.current_section_peak = Max(sk.current_section_peak, strain)]

\* Skill::save_current_peak()
Skill_save_current_peak(sk) ==
    [sk EXCEPT !.strain_peaks = Append(sk.strain_peaks, sk.current_section_peak)]

\* Skill::start_new_section_from(time)
Skill_start_new_section_from(sk, time) ==
    [sk EXCEPT !.current_section_peak = Decay(sk.current_strain)]

RECURSIVE InsertDesc(_, _)
InsertDesc(x, seq) ==
    IF seq = <<>> THEN <<x>>
    ELSE IF x >= Head(seq) THEN <<x>> \o seq
    ELSE <<Head(seq)>> \o InsertDesc(x, Tail(seq))

RECURSIVE SortDesc(_)
SortDesc(seq) == IF seq = <<>> THEN <<>> ELSE InsertDesc(Head(seq), SortDesc(Tail(seq)))

\* Skill::difficulty_value(): the rank-weighted sum of the peaks sorted
\* descending.  The sum is a function of the sorted non-zero peaks, which
\* stand for it here; it is 0 exactly when there are none.
Skill_difficulty_value(sk) == SelectSeq(SortDesc(sk.strain_peaks), LAMBDA p : p # 0)

----------------------------------------------------------------------------
(* The program state as one record, and the steps of stars()/strains() *)

Cur ==
    [fn |-> fn, map |-> map, mods |-> mods, passed_objects |-> passed_objects,
     pc |-> pc, stack_threshold |-> stack_threshold, hit_objects |-> hit_objects,
     max_combo |-> max_combo, loc |-> loc, ev |-> ev, skills |-> skills,
     result |-> result]

NoLoc ==
    [i |-> 0, n |-> 0, obj_i_idx |-> 0, extended_start_idx |-> 0,
     j |-> 0, start_time |-> 0, slider_stack |-> 0]

NoH == [time |-> 0, jump_dist |-> 0, strain_time |-> 0]

NoEv == [next |-> 0, prev |-> 0, curr |-> 0, h |-> NoH, current_section_end |-> 0]

NoResult == [kind |-> "none"]

Panic == [kind |-> "panic"]

\* The state at the call of stars() or strains()
Entry(f, m, md, po) ==
    [fn |-> f, map |-> m, mods |-> md, passed_objects |-> po,
     pc |-> "begin", stack_threshold |-> 0, hit_objects |-> <<>>,
     max_combo |-> 0, loc |-> NoLoc, ev |-> NoEv, skills |-> <<>>,
     result |-> NoResult]

\* let take = passed_objects.unwrap_or_else(|| map.hit_objects.len())
TakeOf(s) == IF s.passed_objects.is_some THEN s.passed_objects.val ELSE Len(s.map.hit_objects)

\* od = (80 - difficulty_range_od(map_attributes.od) / clock_rate) / 6
OdOf(s) == LET a == MapAttributes(s.map, s.mods) IN <<"od", a.od, a.clock_rate>>

\* DifficultyAttributes { ar, hp, od, ..Default::default() }
DefaultAttributes(s) ==
    [kind |-> "attrs",
     ar |-> MapAttributes(s.map, s.mods).ar,
     hp |-> MapAttributes(s.map, s.mods).hp,
     od |-> OdOf(s),
     aim_strain |-> <<>>, speed_strain |-> <<>>, flashlight_rating |-> <<>>,
     n_circles |-> 0, n_sliders |-> 0, n_spinners |-> 0,
     stars |-> <<>>, max_combo |-> 0]

\* Strains::default()
DefaultStrains == [kind |-> "strains", section_length |-> 0, strains |-> <<>>]

\* stars(): if take < 2 { return .. };  strains(): if len() < 2 { return .. }
TooFew(s) ==
    IF s.fn = "stars" THEN TakeOf(s) < 2 ELSE Len(s.map.hit_objects) < 2

StepBegin(s) ==
    IF TooFew(s)
    THEN [s EXCEPT !.pc = "done",
                   !.result = IF s.fn = "stars" THEN DefaultAttributes(s) ELSE DefaultStrains]
    ELSE [s EXCEPT !.pc = "preprocess"]

\* raw_ar under hard-rock and easy: stars() caps at 10, strains() does not
RawAr(s) ==
    IF s.mods.hr
    THEN IF s.fn = "stars" THEN Min((s.map.ar * 14) \div 10, 100) ELSE (s.map.ar * 14) \div 10
    ELSE IF s.mods.ez THEN s.map.ar \div 2 ELSE s.map.ar

\* stack_threshold = time_preempt * map.stack_leniency
StackThreshold(s) == (difficulty_range_ar(RawAr(s)) * s.map.stack_leniency) \div 10

\* the notes the object iterator walks: .take(take) in stars() only
NotesTaken(s) ==
    IF s.fn = "stars" THEN Take(s.map.hit_objects, TakeOf(s)) ELSE s.map.hit_objects

\* Mutant of StepPreprocess: the clock-rate division is done while the
\* objects are built
StepPreprocessScaling(s) ==
    LET objs == BuildObjects(NotesTaken(s), 1, s.mods.hr)
    IN  [s EXCEPT !.pc = "select",
                  !.hit_objects = [k \in 1..Len(objs) |->
                        [objs[k] EXCEPT !.time = (@ * s.mods.clock_rate.den)
                                                     \div s.mods.clock_rate.num]],
                  !.max_combo = SumCombo(objs),
                  !.stack_threshold = StackThreshold(s)]

StepPreprocess(s) ==
    LET objs == BuildObjects(NotesTaken(s), 1, s.mods.hr)
    IN  [s EXCEPT !.pc = "select",
                  !.hit_objects = objs,
                  !.max_combo = SumCombo(objs),
                  !.stack_threshold = StackThreshold(s)]

----------------------------------------------------------------------------
(* Stack resolvers.  Indices are the source's, counted from 0. *)

Obj(s, k) == s.hit_objects[k + 1]

SetHeight(objs, k, v) == [objs EXCEPT ![k + 1].stack_height = v]

\* Mutant of StackOn: the scanned object's own height is incremented
StackOnIncrement(objs, n, oi) == SetHeight(objs, n, objs[n + 1].stack_height + 1)

\* hit_objects[n].stack_height = hit_objects[obj_i_idx].stack_height + 1.0
StackOn(objs, n, oi) == SetHeight(objs, n, objs[oi + 1].stack_height + 1)

\* Mutant of ScanSkips: the backward scan does not skip spinners
ScanSkipsNothing(o) == FALSE

\* if hit_objects[n].is_spinner() { continue }
ScanSkips(o) == is_spinner(o)

\* Mutant of OldStackSelf: the forward object is raised instead of object i
OldStackForward(objs, i, j) == SetHeight(objs, j, objs[j + 1].stack_height + 1)

\* hit_objects[i].stack_height += 1.0
OldStackSelf(objs, i, j) == SetHeight(objs, i, objs[i + 1].stack_height + 1)

\* if map.version >= 6 { stacking(..) } else { old_stacking(..) }, and the
\* head of the callee: extended_end_idx = hit_objects.len() - 1 has no value
\* for an empty slice (overflow panic, or a wrapped index that is out of
\* bounds at its first use)
StepSelect(s) ==
    IF s.map.version >= 6
    THEN IF Len(s.hit_objects) = 0
         THEN [s EXCEPT !.pc = "panic", !.result = Panic]
         ELSE [s EXCEPT !.pc = "st_outer",
                        !.loc = [NoLoc EXCEPT !.i = Len(s.hit_objects) - 1]]
    ELSE [s EXCEPT !.pc = "old_outer", !.loc = NoLoc]

\* for i in (1..=extended_end_idx).rev(): the head of one iteration
StepStackingOuter(s) ==
    LET i == s.loc.i
    IN  IF i < 1 THEN [s EXCEPT !.pc = "postpass", !.loc = NoLoc]
        ELSE IF Abs(Obj(s, i).stack_height) > 0 \/ is_spinner(Obj(s, i))
             THEN [s EXCEPT !.loc.i = i - 1]
        ELSE IF is_circle(Obj(s, i))
             THEN [s EXCEPT !.pc = "st_circle", !.loc.n = i, !.loc.obj_i_idx = i]
        ELSE IF is_slider(Obj(s, i))
             THEN [s EXCEPT !.pc = "st_slider", !.loc.n = i, !.loc.obj_i_idx = i]
        ELSE [s EXCEPT !.loc.i = i - 1]

\* break out of an inner loop of stacking(): on to the next i
StackingBreak(s, objs, ext) ==
    [s EXCEPT !.pc = "st_outer",
              !.hit_objects = objs,
              !.loc = [NoLoc EXCEPT !.i = s.loc.i - 1, !.extended_start_idx = ext]]

\* Mutant of ApplyOffset: the offset pass runs to the end of the slice
ApplyOffsetToEnd(objs, n, i, offset) ==
    [k \in 1..Len(objs) |->
        IF k - 1 >= n + 1 /\ Near(objs[n + 1].end_pos, objs[k].pos)
        THEN [objs[k] EXCEPT !.stack_height = @ - offset]
        ELSE objs[k]]

\* for j in n + 1..=i { if end_pos(n) near pos(j) { stack_height -= offset } }
ApplyOffset(objs, n, i, offset) ==
    [k \in 1..Len(objs) |->
        IF k - 1 >= n + 1 /\ k - 1 <= i /\ Near(objs[n + 1].end_pos, objs[k].pos)
        THEN [objs[k] EXCEPT !.stack_height = @ - offset]
        ELSE objs[k]]

\* one turn of the loop of the is_circle() branch
StepStackingCircle(s) ==
    IF s.loc.n = 0 THEN StackingBreak(s, s.hit_objects, s.loc.extended_start_idx)
    ELSE
    LET n == s.loc.n - 1
        i == s.loc.i
        oi == s.loc.obj_i_idx
        ext == s.loc.extended_start_idx
    IN  IF ScanSkips(Obj(s, n)) THEN [s EXCEPT !.loc.n = n]
        ELSE IF Obj(s, oi).time - Obj(s, n).end_time > s.stack_threshold
             THEN StackingBreak(s, s.hit_objects, ext)
        ELSE
        LET objs1 == IF n < ext THEN SetHeight(s.hit_objects, n, 0) ELSE s.hit_objects
            ext1 == IF n < ext THEN n ELSE ext
        IN  IF is_slider(objs1[n + 1]) /\ Near(objs1[n + 1].end_pos, objs1[oi + 1].pos)
            THEN LET offset == objs1[oi + 1].stack_height - objs1[n + 1].stack_height + 1
                 IN  StackingBreak(s, ApplyOffset(objs1, n, i, offset), ext1)
            ELSE IF Near(objs1[n + 1].pos, objs1[oi + 1].pos)
                 THEN [s EXCEPT !.hit_objects = StackOn(objs1, n, oi),
                                !.loc.n = n,
                                !.loc.obj_i_idx = n,
                                !.loc.extended_start_idx = ext1]
            ELSE [s EXCEPT !.hit_objects = objs1,
                           !.loc.n = n,
                           !.loc.extended_start_idx = ext1]

\* one turn of the loop of the is_slider() branch
StepStackingSlider(s) ==
    IF s.loc.n = 0 THEN StackingBreak(s, s.hit_objects, s.loc.extended_start_idx)
    ELSE
    LET n == s.loc.n - 1
        oi == s.loc.obj_i_idx
    IN  IF ScanSkips(Obj(s, n)) THEN [s EXCEPT !.loc.n = n]
        ELSE IF Obj(s, oi).time - Obj(s, n).time > s.stack_threshold
             THEN StackingBreak(s, s.hit_objects, s.loc.extended_start_idx)
        ELSE IF Near(Obj(s, n).end_pos, Obj(s, oi).pos)
             THEN [s EXCEPT !.hit_objects = StackOn(s.hit_objects, n, oi),
                            !.loc.n = n,
                            !.loc.obj_i_idx = n]
        ELSE [s EXCEPT !.loc.n = n]

\* for i in 0..hit_objects.len(): the head of one iteration of old_stacking()
StepOldOuter(s) ==
    LET i == s.loc.i
    IN  IF i >= Len(s.hit_objects) THEN [s EXCEPT !.pc = "postpass", !.loc = NoLoc]
        ELSE IF Obj(s, i).stack_height # 0 /\ ~is_slider(Obj(s, i))
             THEN [s EXCEPT !.loc.i = i + 1]
        ELSE [s EXCEPT !.pc = "old_inner",
                       !.loc.j = i + 1,
                       !.loc.start_time = Obj(s, i).end_time,
                       !.loc.slider_stack = 0]

\* one turn of for j in i + 1..hit_objects.len(); end_pos was read from
\* object i before the loop and no turn changes a position
StepOldInner(s) ==
    LET i == s.loc.i
        j == s.loc.j
        next_i == [NoLoc EXCEPT !.i = i + 1]
    IN  IF j >= Len(s.hit_objects) THEN [s EXCEPT !.pc = "old_outer", !.loc = next_i]
        ELSE IF Obj(s, j).time - s.stack_threshold > s.loc.start_time
             THEN [s EXCEPT !.pc = "old_outer", !.loc = next_i]
        ELSE IF Near(Obj(s, j).pos, Obj(s, i).pos)
             THEN [s EXCEPT !.hit_objects = OldStackSelf(s.hit_objects, i, j),
                            !.loc.start_time = Obj(s, j).end_time,
                            !.loc.j = j + 1]
        ELSE IF Near(Obj(s, j).pos, Obj(s, i).end_pos)
             THEN [s EXCEPT !.hit_objects =
                                SetHeight(s.hit_objects, j,
                                          Obj(s, j).stack_height - (s.loc.slider_stack + 1)),
                            !.loc.slider_stack = s.loc.slider_stack + 1,
                            !.loc.start_time = Obj(s, j).end_time,
                            !.loc.j = j + 1]
        ELSE [s EXCEPT !.loc.j = j + 1]

----------------------------------------------------------------------------
(* The post-pass and the evaluation loop *)

\* scale = (1 - 0.7 * (cs - 5) / 5) / 2;  scale_factor = scale * -6.4,
\* counted in 1/PosSub px: -3.2 px at cs 5, 0.448 px per point of cs
ScaleFactor(cs10) == (56 * (cs10 - 50)) \div 10 - 400

\* |mut h| { h.time /= clock_rate; h.pos += Pos2::new(stack_offset); h }
Scaled(o, scale_factor, clock_rate) ==
    LET stack_offset == o.stack_height * scale_factor
        p == <<o.pos[1] * PosSub + stack_offset, o.pos[2] * PosSub + stack_offset>>
    IN  [o EXCEPT !.time = (o.time * TimeSub * clock_rate.den) \div clock_rate.num,
                  !.end_time = o.end_time * TimeSub,
                  !.pos = p,
                  !.end_pos = IF is_slider(o)
                              THEN <<o.end_pos[1] * PosSub, o.end_pos[2] * PosSub>>
                              ELSE p]

\* skills = [Aim, Speed] and Flashlight when mods.fl()
NewSkills(md) ==
    <<Skill_new("aim"), Skill_new("speed")>>
        \o (IF md.fl THEN <<Skill_new("flashlight")>> ELSE <<>>)

StepPostPass(s) ==
    LET a == MapAttributes(s.map, s.mods)
    IN  [s EXCEPT !.pc = "first",
                  !.hit_objects = [k \in 1..Len(s.hit_objects) |->
                                      Scaled(s.hit_objects[k], ScaleFactor(a.cs), a.clock_rate)],
                  !.skills = NewSkills(s.mods)]

SectionLen == SECTION_LEN * TimeSub

\* prev = hit_objects.next().unwrap();
\* current_section_end = (prev.time / SECTION_LEN).ceil() * SECTION_LEN
StepFirst(s) ==
    IF Len(s.hit_objects) < 1 THEN [s EXCEPT !.pc = "panic", !.result = Panic]
    ELSE [s EXCEPT !.pc = "second",
                   !.ev = [NoEv EXCEPT !.next = 1, !.prev = 0,
                                       !.current_section_end =
                                           CeilDiv(Obj(s, 0).time, SectionLen) * SectionLen]]

\* curr = hit_objects.next().unwrap();  h = DifficultyObject::new(&curr, &prev, ..)
StepSecond(s) ==
    IF Len(s.hit_objects) < 2 THEN [s EXCEPT !.pc = "panic", !.result = Panic, !.ev = NoEv]
    ELSE [s EXCEPT !.pc = "second_while",
                   !.ev.curr = 1,
                   !.ev.next = 2,
                   !.ev.h = DifficultyObject_new(Obj(s, 1), Obj(s, 0))]

\* for skill in skills.iter_mut() { .. }, for each of the four loop bodies
SkillsStartNewSection(sks, time) ==
    [k \in 1..Len(sks) |-> Skill_start_new_section_from(sks[k], time)]

SkillsSaveAndStartNewSection(sks, time) ==
    [k \in 1..Len(sks) |->
        Skill_start_new_section_from(Skill_save_current_peak(sks[k]), time)]

SkillsProcess(sks, h) == [k \in 1..Len(sks) |-> Skill_process(sks[k], h)]

SkillsSaveCurrentPeak(sks) == [k \in 1..Len(sks) |-> Skill_save_current_peak(sks[k])]

\* Mutant of StepSecondWhile: the second object's loop saves the peak too
StepSecondWhileSaving(s) ==
    IF s.ev.h.time > s.ev.current_section_end
    THEN [s EXCEPT !.skills =
                       SkillsSaveAndStartNewSection(s.skills, s.ev.current_section_end),
                   !.ev.current_section_end = @ + SectionLen]
    ELSE [s EXCEPT !.pc = "second_process"]

\* while h.base.time > current_section_end { start_new_section_from(..) }
StepSecondWhile(s) ==
    IF s.ev.h.time > s.ev.current_section_end
    THEN [s EXCEPT !.skills = SkillsStartNewSection(s.skills, s.ev.current_section_end),
                   !.ev.current_section_end = @ + SectionLen]
    ELSE [s EXCEPT !.pc = "second_process"]

\* for skill in skills { skill.process(&h) };  prev = curr
AfterProcess(s) ==
    [s EXCEPT !.pc = "loop_next",
              !.skills = SkillsProcess(s.skills, s.ev.h),
              !.ev.prev = s.ev.curr,
              !.ev.h = NoH]

StepSecondProcess(s) == AfterProcess(s)

\* for curr in hit_objects { h = DifficultyObject::new(&curr, &prev, ..) .. }
StepLoopNext(s) ==
    IF s.ev.next >= Len(s.hit_objects) THEN [s EXCEPT !.pc = "final_save"]
    ELSE [s EXCEPT !.pc = "loop_while",
                   !.ev.curr = s.ev.next,
                   !.ev.next = s.ev.next + 1,
                   !.ev.h = DifficultyObject_new(Obj(s, s.ev.next), Obj(s, s.ev.prev))]

\* Mutant of StepLoopWhile: an `if` in place of the `while`
StepLoopIf(s) ==
    IF s.ev.h.time > s.ev.current_section_end
    THEN [s EXCEPT !.pc = "loop_process",
                   !.skills =
                       SkillsSaveAndStartNewSection(s.skills, s.ev.current_section_end),
                   !.ev.current_section_end = @ + SectionLen]
    ELSE [s EXCEPT !.pc = "loop_process"]

\* while h.base.time > current_section_end { save_current_peak();
\* start_new_section_from(..) }
StepLoopWhile(s) ==
    IF s.ev.h.time > s.ev.current_section_end
    THEN [s EXCEPT !.skills =
                       SkillsSaveAndStartNewSection(s.skills, s.ev.current_section_end),
                   !.ev.current_section_end = @ + SectionLen]
    ELSE [s EXCEPT !.pc = "loop_process"]

StepLoopProcess(s) == AfterProcess(s)

\* for skill in skills { skill.save_current_peak() }
StepFinalSave(s) ==
    [s EXCEPT !.pc = "finish",
              !.skills = SkillsSaveCurrentPeak(s.skills)]

\* the ratings: difficulty_value().sqrt() * DIFFICULTY_MULTIPLIER, which is
\* a function of difficulty_value() and 0 when that is 0; the star rating is
\* a function of the three ratings, which stand for it
StarsAttributes(s) ==
    LET aim_rating == Skill_difficulty_value(s.skills[1])
        speed_rating == IF s.mods.rx THEN <<>> ELSE Skill_difficulty_value(s.skills[2])
        flashlight_rating == IF Len(s.skills) >= 3
                             THEN Skill_difficulty_value(s.skills[3]) ELSE <<>>
    IN  [kind |-> "attrs",
         ar |-> MapAttributes(s.map, s.mods).ar,
         hp |-> MapAttributes(s.map, s.mods).hp,
         od |-> OdOf(s),
         aim_strain |-> aim_rating,
         speed_strain |-> speed_rating,
         flashlight_rating |-> flashlight_rating,
         n_circles |-> s.map.n_circles,
         n_sliders |-> s.map.n_sliders,
         n_spinners |-> s.map.n_spinners,
         stars |-> <<aim_rating, speed_rating, flashlight_rating>>,
         max_combo |-> s.max_combo]

ZipSum(a, b) == [k \in 1..Min(Len(a), Len(b)) |-> a[k] + b[k]]

\* the three pops, the two swaps and the zipped sums of strains()
StrainsOf(sks) ==
    LET speed0 == sks[Len(sks)].strain_peaks
        aim0 == sks[Len(sks) - 1].strain_peaks
    IN  IF Len(sks) >= 3
        THEN LET flashlight0 == sks[Len(sks) - 2].strain_peaks
                 \* mem::swap(speed_strains, aim_strains)
                 speed1 == aim0
                 aim1 == speed0
                 \* mem::swap(aim_strains, flashlight_strains)
                 aim2 == flashlight0
                 flashlight2 == aim1
             IN  ZipSum(ZipSum(aim2, speed1), flashlight2)
        ELSE ZipSum(aim0, speed0)

StepFinish(s) ==
    [s EXCEPT !.pc = "done",
              !.ev = NoEv,
              !.result = IF s.fn = "stars" THEN StarsAttributes(s)
                         ELSE [kind |-> "strains",
                               section_length |-> SECTION_LEN,
                               strains |-> StrainsOf(s.skills)]]

----------------------------------------------------------------------------
(* The whole run as a function of the arguments *)

Step(s) ==
    CASE s.pc = "begin" -> StepBegin(s)
      [] s.pc = "preprocess" -> StepPreprocess(s)
      [] s.pc = "select" -> StepSelect(s)
      [] s.pc = "st_outer" -> StepStackingOuter(s)
      [] s.pc = "st_circle" -> StepStackingCircle(s)
      [] s.pc = "st_slider" -> StepStackingSlider(s)
      [] s.pc = "old_outer" -> StepOldOuter(s)
      [] s.pc = "old_inner" -> StepOldInner(s)
      [] s.pc = "postpass" -> StepPostPass(s)
      [] s.pc = "first" -> StepFirst(s)
      [] s.pc = "second" -> StepSecond(s)
      [] s.pc = "second_while" -> StepSecondWhile(s)
      [] s.pc = "second_process" -> StepSecondProcess(s)
      [] s.pc = "loop_next" -> StepLoopNext(s)
      [] s.pc = "loop_while" -> StepLoopWhile(s)
      [] s.pc = "loop_process" -> StepLoopProcess(s)
      [] s.pc = "final_save" -> StepFinalSave(s)
      [] s.pc = "finish" -> StepFinish(s)
      [] OTHER -> s

RECURSIVE RunTo(_, _)
\* the state in which the run from s first stands at one of the places `stop`
RunTo(s, stop) ==
    IF s.pc \in stop \/ s.pc \in {"done", "panic"} THEN s ELSE RunTo(Step(s), stop)

\* stars(map, mods, passed_objects) / strains(map, mods), run to its end
Run(f, m, md, po) == RunTo(Entry(f, m, md, po), {"done", "panic"})

\* the selected resolver called on a sequence and a threshold
Resolve(s, objs) ==
    RunTo([s EXCEPT !.pc = "select", !.hit_objects = objs, !.loc = NoLoc],
          {"postpass"}).hit_objects

StackHeights(objs) == [k \in 1..Len(objs) |-> objs[k].stack_height]

----------------------------------------------------------------------------
(* Inputs *)

Positions == {<<0, 0>>, <<10, 0>>}

Circle(t, p) ==
    [kind |-> "circle", time |-> t, pos |-> p, end_pos |-> p, duration |-> 0, pixel_len |-> 0]

Slider(t, p, e, len) ==
    [kind |-> "slider", time |-> t, pos |-> p, end_pos |-> e,
     duration |-> 3 * len, pixel_len |-> len]

Spinner(t, p) ==
    [kind |-> "spinner", time |-> t, pos |-> p, end_pos |-> p, duration |-> 300, pixel_len |-> 0]

\* every shape of note at time t
AllNotes(t) ==
    {Circle(t, p) : p \in Positions}
        \cup {Slider(t, p, e, 100) : p \in Positions, e \in Positions}
        \cup {Slider(t, <<0, 0>>, <<0, 0>>, 0)}
        \cup {Spinner(t, p) : p \in Positions}

\* the shapes the runs under every modifier are drawn from
FewNotes(t) ==
    {Circle(t, <<0, 0>>), Slider(t, <<0, 0>>, <<10, 0>>, 100),
     Slider(t, <<0, 0>>, <<0, 0>>, 0), Spinner(t, <<0, 0>>)}

TimeOrdered(notes) == \A k \in 1..(Len(notes) - 1) : notes[k].time <= notes[k + 1].time

\* the parser's Beatmap: the notes in time order and their counts by kind
Beatmap(notes, version, ar) ==
    [hit_objects |-> notes, version |-> version, ar |-> ar, cs |-> 50,
     hp |-> 50, od |-> 50, stack_leniency |-> 7,
     n_circles |-> CountKind(notes, "circle"),
     n_sliders |-> CountKind(notes, "slider"),
     n_spinners |-> CountKind(notes, "spinner")]

\* the time-ordered note sequences of up to MaxObjects notes of a pool
NoteSeqs(pool) ==
    UNION {{q \in [1..len -> pool] : TimeOrdered(q)} : len \in 0..MaxObjects}

NoMod == [hr |-> FALSE, ez |-> FALSE, fl |-> FALSE, rx |-> FALSE,
          clock_rate |-> [num |-> 1, den |-> 1]]

HardRockDoubleTimeFlashlight ==
    [hr |-> TRUE, ez |-> FALSE, fl |-> TRUE, rx |-> FALSE,
     clock_rate |-> [num |-> 3, den |-> 2]]

EasyHalfTimeRelax ==
    [hr |-> FALSE, ez |-> TRUE, fl |-> FALSE, rx |-> TRUE,
     clock_rate |-> [num |-> 3, den |-> 4]]

ModsSet == {NoMod, HardRockDoubleTimeFlashlight, EasyHalfTimeRelax}

PassedSet == {None} \cup {Some(k) : k \in 1..MaxObjects}

----------------------------------------------------------------------------
(* The state machine *)

Apply(t) ==
    /\ fn' = t.fn
    /\ map' = t.map
    /\ mods' = t.mods
    /\ passed_objects' = t.passed_objects
    /\ pc' = t.pc
    /\ stack_threshold' = t.stack_threshold
    /\ hit_objects' = t.hit_objects
    /\ max_combo' = t.max_combo
    /\ loc' = t.loc
    /\ ev' = t.ev
    /\ skills' = t.skills
    /\ result' = t.result

InitAt(s) ==
    /\ fn = s.fn
    /\ map = s.map
    /\ mods = s.mods
    /\ passed_objects = s.passed_objects
    /\ pc = s.pc
    /\ stack_threshold = s.stack_threshold
    /\ hit_objects = s.hit_objects
    /\ max_combo = s.max_combo
    /\ loc = s.loc
    /\ ev = s.ev
    /\ skills = s.skills
    /\ result = s.result
    /\ panic_at = "none"

\* every modifier set, cutoff and function, on maps of few note shapes
Init ==
    \E notes \in NoteSeqs(UNION {FewNotes(t) : t \in {0, 300, 1500}}), version \in {5, 6},
       md \in ModsSet, f \in {"stars", "strains"}, po \in PassedSet :
        /\ f = "strains" => po = None
        /\ InitAt(Entry(f, Beatmap(notes, version, 100), md, po))

\* no modifier and no cutoff, on maps of every note shape
InitStack ==
    \E notes \in NoteSeqs(UNION {AllNotes(t) : t \in {0, 300, 600}}), version \in {5, 6}, ar \in {50, 100} :
        InitAt(Entry("stars", Beatmap(notes, version, ar), NoMod, None))

Begin == pc = "begin" /\ Apply(StepBegin(Cur)) /\ UNCHANGED panic_at

Preprocess == pc = "preprocess" /\ Apply(StepPreprocess(Cur)) /\ UNCHANGED panic_at

\* an empty slice: `len() - 1` panics where overflow checks are on, and
\* wraps where they are off, to an index that is out of bounds at line 438
Select ==
    /\ pc = "select"
    /\ Apply(StepSelect(Cur))
    /\ IF StepSelect(Cur).pc = "panic"
       THEN panic_at' \in {"423: attempt to subtract with overflow",
                           "438: index out of bounds"}
       ELSE UNCHANGED panic_at

StackingOuter == pc = "st_outer" /\ Apply(StepStackingOuter(Cur)) /\ UNCHANGED panic_at

StackingCircle == pc = "st_circle" /\ Apply(StepStackingCircle(Cur)) /\ UNCHANGED panic_at

StackingSlider == pc = "st_slider" /\ Apply(StepStackingSlider(Cur)) /\ UNCHANGED panic_at

OldOuter == pc = "old_outer" /\ Apply(StepOldOuter(Cur)) /\ UNCHANGED panic_at

OldInner == pc = "old_inner" /\ Apply(StepOldInner(Cur)) /\ UNCHANGED panic_at

PostPass == pc = "postpass" /\ Apply(StepPostPass(Cur)) /\ UNCHANGED panic_at

First ==
    /\ pc = "first"
    /\ Apply(StepFirst(Cur))
    /\ panic_at' = IF StepFirst(Cur).pc = "panic" THEN "unwrap: first object" ELSE panic_at

Second ==
    /\ pc = "second"
    /\ Apply(StepSecond(Cur))
    /\ panic_at' = IF StepSecond(Cur).pc = "panic" THEN "unwrap: second object" ELSE panic_at

SecondWhile == pc = "second_while" /\ Apply(StepSecondWhile(Cur)) /\ UNCHANGED panic_at

SecondProcess == pc = "second_process" /\ Apply(StepSecondProcess(Cur)) /\ UNCHANGED panic_at

LoopNext == pc = "loop_next" /\ Apply(StepLoopNext(Cur)) /\ UNCHANGED panic_at

LoopWhile == pc = "loop_while" /\ Apply(StepLoopWhile(Cur)) /\ UNCHANGED panic_at

LoopProcess == pc = "loop_process" /\ Apply(StepLoopProcess(Cur)) /\ UNCHANGED panic_at

FinalSave == pc = "final_save" /\ Apply(StepFinalSave(Cur)) /\ UNCHANGED panic_at

Finish == pc = "finish" /\ Apply(StepFinish(Cur)) /\ UNCHANGED panic_at

NextStack ==
    \/ Begin
    \/ Preprocess
    \/ Select
    \/ StackingOuter
    \/ StackingCircle
    \/ StackingSlider
    \/ OldOuter
    \/ OldInner

Next ==
    \/ NextStack
    \/ PostPass
    \/ First
    \/ Second
    \/ SecondWhile
    \/ SecondProcess
    \/ LoopNext
    \/ LoopWhile
    \/ LoopProcess
    \/ FinalSave
    \/ Finish

\* stars() and strains() from their call to their return
Spec == Init /\ [][Next]_vars

\* the run up to the return of the stack resolver
SpecStack == InitStack /\ [][NextStack]_vars

----------------------------------------------------------------------------
(* Properties *)

StackPlaces == {"select", "st_outer", "st_circle", "st_slider", "old_outer", "old_inner"}

ModernPlaces == {"st_outer", "st_circle", "st_slider"}

LegacyPlaces == {"old_outer", "old_inner"}

EvalPlaces == {"second", "second_while", "second_process", "loop_next", "loop_while",
               "loop_process", "final_save", "finish"}

ProcessPlaces == {"second_process", "loop_process"}

HasSlider(objs) == \E k \in 1..Len(objs) : is_slider(objs[k])

Unstacked(objs) == [k \in 1..Len(objs) |-> [objs[k] EXCEPT !.stack_height = 0]]

WithoutSpinners(objs) == SelectSeq(objs, LAMBDA o : ~is_spinner(o))

\* the multiple of the section length at or after time t
SectionOf(t) == CeilDiv(t, SectionLen) * SectionLen

\* the objects that are playable: inside the cutoff and valid
PlayableObjects == BuildObjects(NotesTaken(Cur), 1, mods.hr)

\* C1 (as claimed): with fewer than 2 playable objects stars() returns the
\* defaulted attributes (zero ratings, ar/hp/od of the adjusted map) straight
\* from its first check, and never enters preprocessing, stacking or the
\* unwraps of the first and second object.
C1_ShortCircuitBelowTwoPlayable ==
    (fn = "stars" /\ Len(PlayableObjects) < 2) =>
        /\ pc \in {"begin", "done"}
        /\ pc = "done" => result = DefaultAttributes(Cur)

\* the map cut to its first k notes, as the parser would deliver it
Truncated(m, k) ==
    [m EXCEPT !.hit_objects = Take(m.hit_objects, k),
              !.n_circles = CountKind(Take(m.hit_objects, k), "circle"),
              !.n_sliders = CountKind(Take(m.hit_objects, k), "slider"),
              !.n_spinners = CountKind(Take(m.hit_objects, k), "spinner")]

\* C2 (as claimed): stars() with passed_objects = Some(N) returns, field for
\* field, what stars() with no cutoff returns on the map cut to its first N
\* notes.
C2_CutoffEqualsTruncatedMap ==
    (fn = "stars" /\ passed_objects.is_some /\ pc \in {"done", "panic"}) =>
        result = Run("stars", Truncated(map, passed_objects.val), mods, None).result

\* stars() on the arguments of this strains() run, at its first arrival at a place
StarsAt(place) == RunTo(Entry("stars", map, mods, None), {place})

\* the sum of the skills' peaks of section x
PeakSum(sks, x) ==
    sks[1].strain_peaks[x] + sks[2].strain_peaks[x]
        + (IF Len(sks) >= 3 THEN sks[3].strain_peaks[x] ELSE 0)

\* C3 (as claimed): strains() and stars() on the same map and modifiers use
\* the same stack threshold and the same object stream before and after
\* stacking, end with the same peaks per skill, and every entry of the
\* strain series is the sum of the skills' peaks of its section.
C3_StrainsAgreeWithStars ==
    fn = "strains" =>
        /\ pc = "select" =>
              /\ stack_threshold = StarsAt("select").stack_threshold
              /\ hit_objects = StarsAt("select").hit_objects
        /\ pc = "first" => hit_objects = StarsAt("first").hit_objects
        /\ (pc = "done" /\ skills # <<>>) =>
              /\ \A k \in 1..Len(skills) :
                    skills[k].strain_peaks = StarsAt("done").skills[k].strain_peaks
              /\ result.strains =
                    [x \in 1..Len(skills[1].strain_peaks) |-> PeakSum(skills, x)]

\* the resolver run once more on the sequence it has resolved
Restacked == Resolve(Cur, hit_objects)

\* C4 (as claimed): a second run of either resolver on its own result leaves
\* every stack_height as it is.
C4_StackingIdempotent ==
    pc = "postpass" => StackHeights(Restacked) = StackHeights(hit_objects)

\* C4 (amended): on a sequence without sliders a second run of either
\* resolver on its own result leaves every stack_height as it is.
C4_StackingIdempotentWithoutSliders ==
    (pc = "postpass" /\ ~HasSlider(hit_objects)) =>
        StackHeights(Restacked) = StackHeights(hit_objects)

\* C4 witness: a resolved slider-free sequence that holds a stack
C4_Witness ==
    /\ pc = "postpass"
    /\ ~HasSlider(hit_objects)
    /\ Len(hit_objects) = 3
    /\ hit_objects[1].stack_height = 2

\* three notes at one position whose times lie within the threshold
LinearStack ==
    /\ Len(hit_objects) = 3
    /\ \A k \in 1..3 : hit_objects[k].pos = hit_objects[1].pos
    /\ hit_objects[3].time - hit_objects[1].time <= stack_threshold
    /\ hit_objects[1].time <= hit_objects[2].time
    /\ hit_objects[2].time <= hit_objects[3].time

\* what the other resolver makes of the same objects
OtherResolver == Resolve([Cur EXCEPT !.map.version = IF map.version >= 6 THEN 5 ELSE 6],
                         Unstacked(hit_objects))

\* C5 (as claimed): a 3-note linear stack gets the heights 1, 2, 3 (or
\* -1, -2, -3) from either resolver, and both resolvers agree.
C5_LinearStackHeights123 ==
    (pc = "postpass" /\ LinearStack) =>
        /\ StackHeights(hit_objects) \in {<<1, 2, 3>>, <<-1, -2, -3>>}
        /\ StackHeights(OtherResolver) = StackHeights(hit_objects)

\* a slider followed by two circles on its end position, away from its start
SliderEndStack ==
    /\ Len(hit_objects) = 3
    /\ is_slider(hit_objects[1]) /\ is_circle(hit_objects[2]) /\ is_circle(hit_objects[3])
    /\ ~Near(hit_objects[1].pos, hit_objects[1].end_pos)
    /\ hit_objects[2].pos = hit_objects[1].end_pos
    /\ hit_objects[3].pos = hit_objects[1].end_pos
    /\ hit_objects[3].time - hit_objects[1].time <= stack_threshold

\* C5 (amended): three circles at one position within the threshold get the
\* heights 2, 1, 0 in sequence order from either resolver, a slider followed
\* by two circles on its end gets 0, -1, -2, and both resolvers agree.
C5_LinearStackHeights210 ==
    /\ (pc = "postpass" /\ LinearStack /\ \A k \in 1..3 : is_circle(hit_objects[k])) =>
          /\ StackHeights(hit_objects) = <<2, 1, 0>>
          /\ StackHeights(OtherResolver) = <<2, 1, 0>>
    /\ (pc = "postpass" /\ SliderEndStack) =>
          /\ StackHeights(hit_objects) = <<0, -1, -2>>
          /\ StackHeights(OtherResolver) = <<0, -1, -2>>

\* C5 witness: the legacy resolver has resolved a stack of three circles
C5_Witness ==
    /\ pc = "postpass"
    /\ map.version < 6
    /\ LinearStack
    /\ \A k \in 1..3 : is_circle(hit_objects[k])
    /\ StackHeights(hit_objects) = <<2, 1, 0>>

PeakCount(k) == Len(skills[k].strain_peaks)

LastTime == hit_objects[Len(hit_objects)].time

\* C6 (as claimed): when the loop has ended every skill holds one peak per
\* section from the first section, the one that ends at
\* ceil(first_object_time / 400) * 400, through the section of the last object.
C6_OnePeakPerSectionFromFirst ==
    pc = "finish" =>
        \A k \in 1..Len(skills) :
            PeakCount(k) = (SectionOf(LastTime) - SectionOf(hit_objects[1].time)) \div SectionLen + 1

\* C6 (amended): the boundaries the second object crosses only start a new
\* section; every boundary a later object crosses saves the peak and starts a
\* new section.  So every skill holds one peak per section from the section
\* of the second object through the section of the last object: none before
\* the second object is processed, one per boundary crossed since, and the
\* last one when the loop has ended.
C6_OnePeakPerSectionFromSecond ==
    \A k \in 1..Len(skills) :
        /\ pc \in {"second", "second_while", "second_process"} => PeakCount(k) = 0
        /\ pc \in {"loop_next", "loop_while", "loop_process", "final_save"} =>
              PeakCount(k) = (ev.current_section_end - SectionOf(hit_objects[2].time)) \div SectionLen
        /\ pc = "finish" =>
              /\ ev.current_section_end = SectionOf(LastTime)
              /\ PeakCount(k) = (SectionOf(LastTime) - SectionOf(hit_objects[2].time)) \div SectionLen + 1

\* C6 witness: the second object lies beyond the first section and a later
\* object beyond an empty section
C6_Witness ==
    /\ pc = "finish"
    /\ SectionOf(hit_objects[2].time) > SectionOf(hit_objects[1].time)
    /\ SectionOf(LastTime) > SectionOf(hit_objects[2].time) + SectionLen
    /\ PeakCount(1) >= 3

\* the stack_height of object k (counted from 0) is written by this step
Written(k) == hit_objects'[k + 1].stack_height # hit_objects[k + 1].stack_height

\* C7: in the iteration for index i the modern resolver writes no object
\* above i and the legacy resolver none below i, and an object the modern
\* backward scan reaches before extended_start_idx is reset and becomes the
\* new frontier.
C7_WritesInsideOpenRange ==
    [][/\ pc \in ModernPlaces =>
             \A k \in 0..(Len(hit_objects) - 1) : Written(k) => k <= loc.i
       /\ pc \in LegacyPlaces =>
             \A k \in 0..(Len(hit_objects) - 1) : Written(k) => k >= loc.i
       /\ (/\ pc = "st_circle"
           /\ loc.n >= 1
           /\ loc.n - 1 < loc.extended_start_idx
           /\ ~ScanSkips(hit_objects[loc.n])
           /\ hit_objects[loc.obj_i_idx + 1].time - hit_objects[loc.n].end_time
                 <= stack_threshold) =>
             /\ loc'.extended_start_idx = loc.n - 1
             /\ hit_objects'[loc.n].stack_height \in
                   {0, hit_objects'[loc.obj_i_idx + 1].stack_height + 1}]_vars

\* C7 witness: the modern resolver is below the last index, and the slider-end
\* offset pass has written
C7_Witness ==
    /\ pc \in ModernPlaces
    /\ loc.i < Len(hit_objects) - 1
    /\ \E k \in 1..Len(hit_objects) : hit_objects[k].stack_height < 0

\* C8 (as claimed): after either resolver every spinner has stack_height 0,
\* and the other objects have the heights they have without the spinners.
C8_SpinnersNeverStack ==
    pc = "postpass" =>
        /\ \A k \in 1..Len(hit_objects) :
              is_spinner(hit_objects[k]) => hit_objects[k].stack_height = 0
        /\ WithoutSpinners(hit_objects) # <<>> =>
              StackHeights(WithoutSpinners(hit_objects))
                 = StackHeights(Resolve(Cur, WithoutSpinners(Unstacked(hit_objects))))

\* C8 (amended): in the modern resolver a spinner is never a candidate nor a
\* scan partner: the other objects have the heights they have without the
\* spinners, and a spinner's own stack_height stays 0 unless it lies within
\* the stack distance of the end of an earlier slider (the offset pass of
\* lines 480-486 lowers it).  The legacy resolver has no spinner check.
C8_ModernSpinnersTakeNoPart ==
    (pc = "postpass" /\ map.version >= 6) =>
        /\ \A k \in 1..Len(hit_objects) :
              (is_spinner(hit_objects[k]) /\ hit_objects[k].stack_height # 0) =>
                  \E m \in 1..(k - 1) :
                      /\ is_slider(hit_objects[m])
                      /\ Near(hit_objects[m].end_pos, hit_objects[k].pos)
        /\ WithoutSpinners(hit_objects) # <<>> =>
              StackHeights(WithoutSpinners(hit_objects))
                 = StackHeights(Resolve(Cur, WithoutSpinners(Unstacked(hit_objects))))

\* C8 witness: the modern resolver has stacked two circles across a spinner
\* that stands on their position
C8_Witness ==
    /\ pc = "postpass"
    /\ map.version >= 6
    /\ Len(hit_objects) = 3
    /\ is_spinner(hit_objects[2])
    /\ hit_objects[2].pos = hit_objects[3].pos
    /\ hit_objects[2].stack_height = 0
    /\ hit_objects[1].stack_height = 1

\* C9: in the evaluation loop current_section_end never decreases and stays
\* ceil(first_object_time / 400) * 400 plus a whole number of sections; at
\* every skill.process(h) the time of h is at most current_section_end and
\* after the section before it, and h is the object that follows the
\* previous one in the sequence.
C9_SectionEndAlignedAndOrdered ==
    [][/\ (pc \in EvalPlaces /\ pc' \in EvalPlaces) =>
             /\ ev'.current_section_end >= ev.current_section_end
             /\ ev'.current_section_end >= SectionOf(hit_objects[1].time)
             /\ (ev'.current_section_end - SectionOf(hit_objects[1].time)) % SectionLen = 0
       /\ pc \in ProcessPlaces =>
             /\ ev.h.time <= ev.current_section_end
             /\ ev.h.time > ev.current_section_end - SectionLen
             /\ ev.h.time = hit_objects[ev.curr + 1].time
             /\ ev.curr = ev.prev + 1
             /\ ev'.prev = ev.curr]_vars

\* C9 witness: an object is about to be processed two sections or more after
\* the first section
C9_Witness ==
    /\ pc = "loop_process"
    /\ ev.current_section_end >= SectionOf(hit_objects[1].time) + 2 * SectionLen

\* the object still has the time and the position of its raw note
RawTime(o) == o.time = map.hit_objects[o.idx].time

RawPos(o) ==
    /\ o.pos = map.hit_objects[o.idx].pos
    /\ o.end_pos = map.hit_objects[o.idx].end_pos

FlippedPos(o) ==
    /\ o.pos = FlipY(map.hit_objects[o.idx].pos, mods.hr)
    /\ o.end_pos = FlipY(map.hit_objects[o.idx].end_pos, mods.hr)

HeightWritten ==
    \E k \in 1..Len(hit_objects) :
        /\ k <= Len(hit_objects')
        /\ hit_objects'[k].stack_height # hit_objects[k].stack_height

\* C10 (as claimed): wherever a stack resolver runs, every object still has
\* the time and the position of its raw note: no clock-rate division, no
\* stack-offset shift and no hard-rock flip has been applied.
C10_StackingReadsRawObjects ==
    pc \in StackPlaces =>
        \A k \in 1..Len(hit_objects) : RawTime(hit_objects[k]) /\ RawPos(hit_objects[k])

\* C10 (amended): every write to stack_height happens in a stack resolver,
\* before the clock-rate division and the stack-offset shift: the resolver
\* reads undivided times and unshifted positions.  The hard-rock flip is
\* applied when the objects are built, before stacking.
C10_StackingBeforeScaling ==
    [][HeightWritten =>
          /\ pc \in StackPlaces
          /\ \A k \in 1..Len(hit_objects) :
                RawTime(hit_objects[k]) /\ FlippedPos(hit_objects[k])]_vars

\* C10 witness: a resolver has written a height under hard-rock and a clock
\* rate other than 1, with objects at times other than 0
C10_Witness ==
    /\ pc \in StackPlaces
    /\ mods.hr
    /\ mods.clock_rate.num # mods.clock_rate.den
    /\ \E k \in 1..Len(hit_objects) :
          hit_objects[k].stack_height # 0 /\ hit_objects[k].time > 0

====
